---- MODULE Spec2Model ----
(***************************************************************************)
(* wave2midi: WaveToMIDIConverter.detect_notes (the note segmenter),       *)
(* WaveToMIDIConverter.notes_to_midi (the event sequencer) and             *)
(* WaveToMIDIConverter.convert (the per-stem driver).                      *)
(*                                                                         *)
(* Units.  Times are integer sample counts: a time of n stands for         *)
(* n / sample_rate seconds, so frame i is at time i * hop_length and the   *)
(* end of the track is at len(audio).  min_note_duration and               *)
(* max_note_duration are held in samples too (0.1 s = 2205, 2.0 s = 44100  *)
(* at 22050 Hz).  Frequencies are in millihertz, probabilities in          *)
(* hundredths.                                                             *)
(***************************************************************************)
EXTENDS Integers, Sequences, FiniteSets

VARIABLES
    config,       \* self.config: the entries the three methods read
    pc,           \* position of the running method
    i,            \* detect_notes: index of the next frame of the zip
    frame,        \* detect_notes: the frame (f, voiced, prob) consumed last
    active_notes, \* detect_notes: the dict, as its items in insertion order
    final_notes,  \* detect_notes: the list being built and returned
    audio_len,    \* detect_notes: len(audio), read by the flush
    raised,       \* the exception that ended the method, or "none"
    notes0,       \* history: the note list as the caller built it
    notes,        \* notes_to_midi: the caller's list (sorted in place)
    instrument,   \* notes_to_midi: instrument argument
    tempo,        \* notes_to_midi: tempo argument in BPM
    tick_mode,    \* how int(mido.time_to_ticks(..)) lands on an integer
    track,        \* notes_to_midi: the MidiTrack being built
    current_tick, \* notes_to_midi: the cursor
    k,            \* notes_to_midi: index of the next note of the loop
    call,         \* notes_to_midi: 1 during the first call, 2 during the second
    first_track,  \* the track the first call returned
    step_log,     \* history: per note, what its loop iteration appended
    stems,        \* convert: the dict of separate_stems, as items in order
    stem_idx,     \* convert: index of the next stem of the loop
    stem_notes,   \* history: the note list detect_notes returned per stem
    midi_files,   \* convert: the list of paths being built and returned
    saved         \* the files midi.save has written, each a path and a track

vars == <<config, pc, i, frame, active_notes, final_notes, audio_len, raised,
          notes0, notes, instrument, tempo, tick_mode, track, current_tick, k, call,
          first_track, step_log, stems, stem_idx, stem_notes, midi_files,
          saved>>

segVars == <<i, frame, active_notes, final_notes, audio_len>>
emitVars == <<notes0, notes, instrument, tempo, tick_mode, track, current_tick, k, call,
              first_track, step_log>>
convVars == <<stems, stem_idx, stem_notes, midi_files, saved>>

----------------------------------------------------------------------------
(* Bounds of the model *)

\* the longest frame stream that is segmented step by step
MaxFrames == 4
\* the longest note list handed to notes_to_midi
MaxNotes == 3

----------------------------------------------------------------------------
(* Configuration: __init__'s defaults, and the values a user config sets *)

sample_rate == 22050
\* probability_threshold 0.5, in hundredths
probability_threshold == 50
\* velocity_scaling 1.0, in hundredths
velocity_scaling == 100

\* hop_length: the default, and one second per hop
HopLengths == {512, 22050}
\* min_note_duration: 0.1 s (the default) and 1.5 s, in samples
MinDurations == {2205, 33075}
\* max_note_duration: 1 s and 2.0 s (the default), in samples
MaxDurations == {22050, 44100}

\* the configs detect_notes is run under: stem_count and output_bpm, which
\* it does not read, at their defaults
Configs ==
    [hop_length : HopLengths,
     min_note_duration : MinDurations,
     max_note_duration : MaxDurations,
     stem_count : {5},
     output_bpm : {120}]

\* __init__'s defaults: hop 512, 0.1 s, 2.0 s, 5 stems, 120 BPM
DefaultConfig ==
    [hop_length |-> 512, min_note_duration |-> 2205,
     max_note_duration |-> 44100, stem_count |-> 5, output_bpm |-> 120]

\* the invariant the data model states for a config: min <= max
ConfigOrdered(cfg) == cfg.min_note_duration <= cfg.max_note_duration

Min(a, b) == IF a <= b THEN a ELSE b
Max(a, b) == IF a >= b THEN a ELSE b

----------------------------------------------------------------------------
(* Frames: what librosa.pyin hands to the loop, one triple per hop *)

Frame(kind, mhz, voiced, prob) ==
    [f_kind |-> kind, f |-> mhz, voiced |-> voiced, prob |-> prob]

FrameSet ==
    { Frame("nan", 0, FALSE, 10),        \* unvoiced
      Frame("num", 440000, TRUE, 100),   \* A4, certain
      Frame("num", 440000, TRUE, 80),    \* A4
      Frame("num", 440000, TRUE, 50),    \* A4, at the threshold
      Frame("num", 466164, TRUE, 60),    \* A#4
      Frame("num", 14000000, TRUE, 90),  \* 14 kHz: above MIDI 127
      Frame("num", 5000, TRUE, 90),      \* 5 Hz: below MIDI 0
      Frame("num", 440000, TRUE, 150),   \* confidence above 1
      Frame("num", 440000, TRUE, -20),   \* confidence below 0
      Frame("num", 0, TRUE, 90),         \* voiced, zero frequency
      Frame("num", -1000, TRUE, 90),     \* voiced, negative frequency
      Frame("num", 0, TRUE, 30),         \* the same, below the threshold
      Frame("none", 0, TRUE, 90) }       \* frequency absent (None)

NoFrame == Frame("none", 0, FALSE, 0)

----------------------------------------------------------------------------
(* librosa.hz_to_midi followed by int(round(..))                           *)

\* ceil(440000 * 2^((m - 69.5) / 12)) for m = 64 .. 74: the least
\* frequency, in mHz, that rounds to each of the MIDI numbers 64 .. 74
SemitoneFloor ==
    <<320244, 339287, 359462, 380837, 403482, 427475,
      452893, 479824, 508356, 538584, 570610>>

\* the least frequency that rounds to MIDI 63; twice it rounds to 75
OctaveLow == 302270

\* for OctaveLow <= mhz < 2 * OctaveLow
SemitoneInOctave(mhz) ==
    63 + Cardinality({ j \in 1..Len(SemitoneFloor) : SemitoneFloor[j] <= mhz })

RECURSIVE RoundedMidi(_)
\* round(69 + 12 * log2(hz / 440)) for a positive frequency; an octave is a
\* factor of two (halving drops at most one mHz at a semitone boundary)
RoundedMidi(mhz) ==
    IF mhz < OctaveLow THEN RoundedMidi(2 * mhz) - 12
    ELSE IF mhz >= 2 * OctaveLow THEN RoundedMidi(mhz \div 2) + 12
    ELSE SemitoneInOctave(mhz)

\* line 167: the value is used as it comes, with no clamp
hz_to_midi_pitch(mhz) == RoundedMidi(mhz)

\* int(round(hz_to_midi(f))) raises for f that is NaN (ValueError), negative
\* (log2 gives NaN: ValueError) or zero (log2 gives -inf: OverflowError)
PitchError(fr) ==
    IF fr.f_kind = "nan" THEN "ValueError"
    ELSE IF fr.f < 0 THEN "ValueError"
    ELSE IF fr.f = 0 THEN "OverflowError"
    ELSE "none"

\* line 166: the frame yields a candidate
IsCandidate(fr) ==
    /\ fr.voiced
    /\ fr.prob > probability_threshold
    /\ fr.f_kind # "none"

\* line 169: int(min(127, max(1, prob * 127 * velocity_scaling)))
Velocity(prob) ==
    Min(127, Max(1, (prob * 127 * velocity_scaling) \div 10000))

\* lines 167-176: the record appended to midi_notes for frame idx
Candidate(fr, idx, cfg) ==
    [pitch |-> hz_to_midi_pitch(fr.f),
     time |-> idx * cfg.hop_length,
     velocity |-> Velocity(fr.prob)]

----------------------------------------------------------------------------
(* detect_notes, lines 178-225: grouping and flush                         *)

\* position of pitch in the dict's items, 0 when it is no key
IndexOfPitch(an, pitch) ==
    IF \E j \in 1..Len(an) : an[j].pitch = pitch
    THEN CHOOSE j \in 1..Len(an) : an[j].pitch = pitch
    ELSE 0

\* lines 189-192 and 208-211: the entry a candidate opens
NewEntry(note) ==
    [pitch |-> note.pitch, start_time |-> note.time, velocity |-> note.velocity]

\* mutant of Exceeds: closes at the ceiling itself
Exceeds_AtCeiling(time_diff, cfg) == time_diff >= cfg.max_note_duration

\* line 197: too much time has passed
Exceeds(time_diff, cfg) == time_diff > cfg.max_note_duration

\* mutant of ClosedDuration: the clamp is lost
ClosedDuration_NoClamp(time_diff, cfg) == time_diff

\* line 199
ClosedDuration(time_diff, cfg) == Min(time_diff, cfg.max_note_duration)

\* line 200
ClosedRetained(duration, cfg) == duration >= cfg.min_note_duration

\* lines 201-206
ClosedNote(entry, duration) ==
    [pitch |-> entry.pitch, start_time |-> entry.start_time,
     duration |-> duration, velocity |-> entry.velocity]

\* mutant of GroupNote: the closed note's entry is not reopened (lines
\* 208-211 lost), so it keeps its old start_time
GroupNote_NoReopen(an, fn, note, cfg) ==
    LET j == IndexOfPitch(an, note.pitch) IN
    IF j = 0
    THEN [active |-> Append(an, NewEntry(note)), final |-> fn]
    ELSE LET time_diff == note.time - an[j].start_time
             duration == ClosedDuration(time_diff, cfg)
         IN IF Exceeds(time_diff, cfg)
            THEN [active |-> an,
                  final |-> IF ClosedRetained(duration, cfg)
                            THEN Append(fn, ClosedNote(an[j], duration))
                            ELSE fn]
            ELSE [active |-> an, final |-> fn]

\* lines 182-211: one iteration of the grouping loop
GroupNote(an, fn, note, cfg) ==
    LET j == IndexOfPitch(an, note.pitch) IN
    IF j = 0
    THEN [active |-> Append(an, NewEntry(note)), final |-> fn]
    ELSE LET time_diff == note.time - an[j].start_time
             duration == ClosedDuration(time_diff, cfg)
         IN IF Exceeds(time_diff, cfg)
            THEN [active |-> [an EXCEPT ![j] = NewEntry(note)],
                  final |-> IF ClosedRetained(duration, cfg)
                            THEN Append(fn, ClosedNote(an[j], duration))
                            ELSE fn]
            ELSE [active |-> an, final |-> fn]

\* mutant of FlushRetained: a run of exactly min_note_duration is dropped
FlushRetained_Strict(duration, cfg) == duration > cfg.min_note_duration

\* line 217
FlushRetained(duration, cfg) == duration >= cfg.min_note_duration

\* mutant of FlushDuration: the clamp is lost
FlushDuration_NoClamp(duration, cfg) == duration

\* line 221
FlushDuration(duration, cfg) == Min(duration, cfg.max_note_duration)

\* lines 218-223
FlushNote(entry, current_time, cfg) ==
    [pitch |-> entry.pitch, start_time |-> entry.start_time,
     duration |-> FlushDuration(current_time - entry.start_time, cfg),
     velocity |-> entry.velocity]

\* lines 214-223: the notes the flush appends, in the dict's order
FlushNotes(an, current_time, cfg) ==
    LET Kept(e) == FlushRetained(current_time - e.start_time, cfg)
        kept == SelectSeq(an, Kept)
    IN [j \in 1..Len(kept) |-> FlushNote(kept[j], current_time, cfg)]

\* lines 165-211 for the frame at index idx: what it raises, and the dict
\* and the list after it
FrameResult(fr, idx, an, fn, cfg) ==
    IF ~IsCandidate(fr)
    THEN [raised |-> "none", active |-> an, final |-> fn]
    ELSE IF PitchError(fr) # "none"
    THEN [raised |-> PitchError(fr), active |-> an, final |-> fn]
    ELSE LET g == GroupNote(an, fn, Candidate(fr, idx, cfg), cfg)
         IN [raised |-> "none", active |-> g.active, final |-> g.final]

\* len(audio) for a stream of n frames of librosa.pyin (n = 1 + len // hop):
\* the samples past the last frame's start
TailLengths == {0, 300, 2204, 2205, 11025}

AudioLengths(n, cfg) ==
    { len \in { (n - 1) * cfg.hop_length + r :
                  r \in { t \in TailLengths : t < cfg.hop_length } } : len > 0 }

\* lines 165-211 for frame i: the two loops run in lockstep, the second
\* reading only the candidate the first appended for this frame.  An
\* exception at line 167 ends the method with no list returned.
ConsumeFrame ==
    /\ pc = "frames"
    /\ i < MaxFrames
    /\ \E fr \in FrameSet :
        /\ frame' = fr
        /\ i' = i + 1
        /\ audio_len' = audio_len
        /\ LET r == FrameResult(fr, i, active_notes, final_notes, config)
           IN /\ active_notes' = r.active
              /\ final_notes' = r.final
              /\ raised' = r.raised
              /\ pc' = (IF r.raised = "none" THEN "frames" ELSE "raised")
    /\ UNCHANGED <<config, emitVars, convVars>>

\* lines 213-225: the zip is exhausted after i frames; flush and return
FlushAndReturn ==
    /\ pc = "frames"
    /\ i >= 1
    /\ \E len \in AudioLengths(i, config) :
        /\ audio_len' = len
        /\ final_notes' = final_notes \o FlushNotes(active_notes, len, config)
    /\ pc' = "returned"
    /\ UNCHANGED <<config, i, frame, active_notes, raised, emitVars,
                   convVars>>

----------------------------------------------------------------------------
(* Idle values of the parts a specification does not exercise *)

SegIdle ==
    /\ i = 0
    /\ frame = NoFrame
    /\ active_notes = <<>>
    /\ final_notes = <<>>
    /\ audio_len = 0

EmitIdle ==
    /\ notes0 = <<>>
    /\ notes = <<>>
    /\ instrument = "other"
    /\ tempo = 120
    /\ tick_mode = "round"
    /\ track = <<>>
    /\ current_tick = 0
    /\ k = 0
    /\ call = 0
    /\ first_track = <<>>
    /\ step_log = <<>>

ConvIdle ==
    /\ stems = <<>>
    /\ stem_idx = 0
    /\ stem_notes = <<>>
    /\ midi_files = <<>>
    /\ saved = {}

----------------------------------------------------------------------------
(* Spec: one call of detect_notes, frame by frame *)

Init ==
    /\ config \in Configs
    /\ pc = "frames"
    /\ raised = "none"
    /\ SegIdle
    /\ EmitIdle
    /\ ConvIdle

Next == ConsumeFrame \/ FlushAndReturn

Spec == Init /\ [][Next]_vars

----------------------------------------------------------------------------
(* notes_to_midi, lines 227-287                                            *)

\* MidiFile(): mido's default resolution
ticks_per_beat == 480

\* line 244: mido.bpm2tempo, microseconds per beat
bpm2tempo(bpm) == 60000000 \div bpm

\* tempo arguments; 60000000 / bpm and 480000000 / tempo are whole for each
Tempos == {60, 120}

\* lines 48-55
instrument_mapping ==
    [vocals |-> 5, drums |-> 0, bass |-> 33, piano |-> 1, guitar |-> 25,
     other |-> 40]

\* line 247: instrument_mapping.get(instrument, 0)
Program(name) ==
    IF name \in DOMAIN instrument_mapping THEN instrument_mapping[name] ELSE 0

Instruments == {"other", "kazoo"}

\* round(num / den) for num >= 0, den > 0, ties to even as Python rounds
RoundHalfEven(num, den) ==
    LET q == num \div den
        r2 == 2 * (num % den)
    IN IF r2 < den THEN q
       ELSE IF r2 > den THEN q + 1
       ELSE IF q % 2 = 0 THEN q ELSE q + 1

\* how int(mido.time_to_ticks(..)) lands on an integer: the library call
\* rounds to the nearest tick, or returns the quotient that int() truncates
TickModes == {"round", "trunc"}

\* lines 259-270: int(mido.time_to_ticks(t, ticks_per_beat, tempo)), that is
\* seconds / (tempo * 1e-6 / ticks_per_beat), for t in samples
time_to_ticks(t, tpb, tempo_us, mode) ==
    LET num == t * ((tpb * 1000000) \div tempo_us)
    IN IF mode = "round" THEN RoundHalfEven(num, sample_rate)
       ELSE num \div sample_rate

Event(type, note, velocity, value, time) ==
    [type |-> type, note |-> note, velocity |-> velocity, value |-> value,
     time |-> time]

\* lines 244-248: the track before the first note
TrackHeader(bpm, name) ==
    << Event("set_tempo", 0, 0, bpm2tempo(bpm), 0),
       Event("program_change", 0, 0, Program(name), 0) >>

RECURSIVE InsertByStart(_, _)
\* note placed after every element whose start_time is not greater
InsertByStart(sorted, note) ==
    IF sorted = <<>> THEN <<note>>
    ELSE IF sorted[Len(sorted)].start_time <= note.start_time
    THEN Append(sorted, note)
    ELSE Append(InsertByStart(SubSeq(sorted, 1, Len(sorted) - 1), note),
                sorted[Len(sorted)])

RECURSIVE InsertionSort(_, _)
\* the elements of rest inserted one by one, in order
InsertionSort(sorted, rest) ==
    IF rest = <<>> THEN sorted
    ELSE InsertionSort(InsertByStart(sorted, Head(rest)), Tail(rest))

RECURSIVE InsertBeforeTies(_, _)
\* note placed before the elements of equal start_time
InsertBeforeTies(sorted, note) ==
    IF sorted = <<>> THEN <<note>>
    ELSE IF sorted[Len(sorted)].start_time < note.start_time
    THEN Append(sorted, note)
    ELSE Append(InsertBeforeTies(SubSeq(sorted, 1, Len(sorted) - 1), note),
                sorted[Len(sorted)])

RECURSIVE InsertionSortBeforeTies(_, _)
InsertionSortBeforeTies(sorted, rest) ==
    IF rest = <<>> THEN sorted
    ELSE InsertionSortBeforeTies(InsertBeforeTies(sorted, Head(rest)),
                                 Tail(rest))

\* mutant of SortByStartTime: an unstable sort, equal keys come out reversed
SortByStartTime_Unstable(list) == InsertionSortBeforeTies(<<>>, list)

\* line 251: notes.sort(key=start_time), a stable sort
SortByStartTime(list) == InsertionSort(<<>>, list)

\* mutant of NeedsWait: a filler also for a zero wait
NeedsWait_AlsoZero(wait_tick) == wait_tick >= 0

\* line 274
NeedsWait(wait_tick) == wait_tick > 0

\* lines 273-283: the messages one note appends
NoteEvents(note, wait_tick, duration_tick) ==
    (IF NeedsWait(wait_tick)
     THEN << Event("note_on", 0, 0, 0, wait_tick) >>
     ELSE << >>)
    \o << Event("note_on", note.pitch, note.velocity, 0, 0),
          Event("note_off", note.pitch, 0, 0, duration_tick) >>

\* mutant of NextCursor: the duration is not added
NextCursor_StartOnly(start_tick, duration_tick) == start_tick

\* line 285
NextCursor(start_tick, duration_tick) == start_tick + duration_tick

\* lines 257-285: the track and the cursor after one note
EmitOne(tr, cursor, note, bpm, mode) ==
    LET start_tick == time_to_ticks(note.start_time, ticks_per_beat,
                                    bpm2tempo(bpm), mode)
        duration_tick == time_to_ticks(note.duration, ticks_per_beat,
                                       bpm2tempo(bpm), mode)
        wait_tick == start_tick - cursor
    IN [track |-> tr \o NoteEvents(note, wait_tick, duration_tick),
        cursor |-> NextCursor(start_tick, duration_tick),
        wait_tick |-> wait_tick]

\* lines 239-254: new file and track, tempo, program change, in-place sort,
\* cursor at 0
BeginNotesToMidi ==
    /\ pc = "emit_idle"
    /\ call < 2
    /\ call' = call + 1
    /\ track' = TrackHeader(tempo, instrument)
    /\ notes' = SortByStartTime(notes)
    /\ current_tick' = 0
    /\ k' = 1
    /\ step_log' = <<>>
    /\ pc' = "emit_loop"
    /\ UNCHANGED <<config, raised, segVars, notes0, instrument, tempo,
                   tick_mode, first_track, convVars>>

\* lines 257-285: one iteration of the loop over the sorted notes
EmitNote ==
    /\ pc = "emit_loop"
    /\ k <= Len(notes)
    /\ LET e == EmitOne(track, current_tick, notes[k], tempo, tick_mode)
       IN /\ track' = e.track
          /\ current_tick' = e.cursor
          /\ step_log' = Append(step_log,
                                [wait_tick |-> e.wait_tick,
                                 events |-> Len(e.track) - Len(track)])
    /\ k' = k + 1
    /\ UNCHANGED <<config, pc, raised, segVars, notes0, notes, instrument,
                   tempo, tick_mode, call, first_track, convVars>>

\* line 287: return midi
ReturnMidi ==
    /\ pc = "emit_loop"
    /\ k > Len(notes)
    /\ IF call = 1
       THEN /\ first_track' = track
            /\ pc' = "emit_idle"
       ELSE /\ first_track' = first_track
            /\ pc' = "emit_done"
    /\ UNCHANGED <<config, raised, segVars, notes0, notes, instrument, tempo,
                   tick_mode, track, current_tick, k, call, step_log,
                   convVars>>

\* the notes a caller hands over: pitch 0..127, velocity 1..127, times in
\* samples
Note(pitch, start_time, duration, velocity) ==
    [pitch |-> pitch, start_time |-> start_time, duration |-> duration,
     velocity |-> velocity]

NoteSet ==
    { Note(60, 0, 2205, 100),       \* 0 s, 0.1 s long
      Note(64, 0, 22050, 80),       \* same start, 1 s long
      Note(67, 2205, 512, 127),     \* starts where the first ends
      Note(69, 1024, 1536, 101),    \* 44.58 ticks, 66.87 ticks long
      Note(72, 2561, 300, 76),      \* starts a sample after the fourth ends
      Note(60, 44100, 2204, 127) }  \* 2 s, just under 0.1 s long

RECURSIVE SeqsUpTo(_, _)
SeqsUpTo(S, n) ==
    IF n = 0 THEN { <<>> }
    ELSE LET shorter == SeqsUpTo(S, n - 1)
         IN shorter \cup { Append(q, x) : q \in shorter, x \in S }

\* SpecEmit: notes_to_midi called twice on one list object
InitEmit ==
    /\ config = DefaultConfig
    /\ pc = "emit_idle"
    /\ raised = "none"
    /\ SegIdle
    /\ notes0 \in SeqsUpTo(NoteSet, MaxNotes)
    /\ notes = notes0
    /\ instrument \in Instruments
    /\ tempo \in Tempos
    /\ tick_mode \in TickModes
    /\ track = <<>>
    /\ current_tick = 0
    /\ k = 0
    /\ call = 0
    /\ first_track = <<>>
    /\ step_log = <<>>
    /\ ConvIdle

NextEmit == BeginNotesToMidi \/ EmitNote \/ ReturnMidi

SpecEmit == InitEmit /\ [][NextEmit]_vars

----------------------------------------------------------------------------
(* convert, lines 289-335                                                  *)

RECURSIVE SegmentFrames(_, _, _, _, _)
\* lines 165-211 over a whole stream, from the frame at index idx on
SegmentFrames(frames, idx, an, fn, cfg) ==
    IF idx >= Len(frames)
    THEN [raised |-> "none", active |-> an, final |-> fn]
    ELSE LET r == FrameResult(frames[idx + 1], idx, an, fn, cfg)
         IN IF r.raised # "none" THEN r
            ELSE SegmentFrames(frames, idx + 1, r.active, r.final, cfg)

\* lines 142-225: detect_notes on a stem whose audio gives these frames
detect_notes(frames, len, cfg) ==
    LET r == SegmentFrames(frames, 0, <<>>, <<>>, cfg)
    IN IF r.raised # "none"
       THEN [raised |-> r.raised, notes |-> <<>>]
       ELSE [raised |-> "none",
             notes |-> r.final \o FlushNotes(r.active, len, cfg)]

RECURSIVE EmitAll(_, _, _, _, _)
\* lines 257-285 over the whole sorted list
EmitAll(tr, cursor, list, bpm, mode) ==
    IF list = <<>> THEN tr
    ELSE LET e == EmitOne(tr, cursor, Head(list), bpm, mode)
         IN EmitAll(e.track, e.cursor, Tail(list), bpm, mode)

\* lines 227-287: the track of the returned file
notes_to_midi(list, name, bpm, mode) ==
    EmitAll(TrackHeader(bpm, name), 0, SortByStartTime(list), bpm, mode)

\* lines 122-128: the stems of each model, in the dict's order
StemNames(stem_count) ==
    IF stem_count = 2 THEN <<"vocals", "accompaniment">>
    ELSE IF stem_count = 4 THEN <<"vocals", "drums", "bass", "other">>
    ELSE <<"vocals", "drums", "bass", "piano", "other">>

\* the configs convert is run under: one-second hops, so that a stream of a
\* few frames lasts longer than min_note_duration
ConvertConfigs ==
    [hop_length : {22050},
     min_note_duration : {2205},
     max_note_duration : {22050},
     stem_count : {2, 4, 5},
     output_bpm : {120}]

StemAudio(frames, len) == [frames |-> frames, len |-> len]

\* what a stem can hold: silence, a tone, a blip too short to keep, two
\* pitches, and a stream on which detect_notes raises
StemAudios ==
    { StemAudio(<< Frame("nan", 0, FALSE, 10), Frame("nan", 0, FALSE, 10) >>,
                22350),
      StemAudio(<< Frame("num", 440000, TRUE, 100),
                   Frame("num", 440000, TRUE, 80) >>, 24255),
      StemAudio(<< Frame("nan", 0, FALSE, 10),
                   Frame("num", 466164, TRUE, 60) >>, 22350),
      StemAudio(<< Frame("num", 440000, TRUE, 100),
                   Frame("num", 466164, TRUE, 60),
                   Frame("num", 440000, TRUE, 80) >>, 55125),
      StemAudio(<< Frame("num", 440000, TRUE, 100),
                   Frame("num", 0, TRUE, 90) >>, 24255) }

\* line 307: the base name of wav_path
base_name == "test"

\* lines 328-329: {base_name}_{stem_name}.mid in output_dir
MidiPath(base, stem_name) == <<base, stem_name, "mid">>

\* mutant of SkipStem: a file is written for every stem
SkipStem_Never(stem_note_list) == FALSE

\* line 320: if not notes
SkipStem(stem_note_list) == stem_note_list = <<>>

\* lines 300-313: a missing input raises; otherwise separate_stems gives one
\* audio per stem of the model
BeginConvert ==
    /\ pc = "convert_start"
    /\ \E exists \in BOOLEAN :
         IF ~exists
         THEN /\ pc' = "raised"
              /\ raised' = "FileNotFoundError"
              /\ stems' = stems
         ELSE /\ pc' = "convert_loop"
              /\ raised' = raised
              /\ \E audios \in [1..config.stem_count -> StemAudios] :
                   stems' = [n \in 1..config.stem_count |->
                               [name |-> StemNames(config.stem_count)[n],
                                frames |-> audios[n].frames,
                                len |-> audios[n].len]]
    /\ stem_idx' = 1
    /\ midi_files' = <<>>
    /\ UNCHANGED <<config, segVars, emitVars, stem_notes, saved>>

\* lines 314-333: one iteration of the loop over the stems
ConvertStem ==
    /\ pc = "convert_loop"
    /\ stem_idx <= Len(stems)
    /\ LET stem == stems[stem_idx]
           d == detect_notes(stem.frames, stem.len, config)
           path == MidiPath(base_name, stem.name)
       IN IF d.raised # "none"
          THEN /\ pc' = "raised"
               /\ raised' = d.raised
               /\ UNCHANGED <<stem_idx, stem_notes, midi_files, saved>>
          ELSE /\ stem_notes' = Append(stem_notes, d.notes)
               /\ stem_idx' = stem_idx + 1
               /\ UNCHANGED <<pc, raised>>
               /\ IF SkipStem(d.notes)
                  THEN UNCHANGED <<midi_files, saved>>
                  ELSE /\ saved' = saved \cup
                            { [path |-> path,
                               track |-> notes_to_midi(d.notes, stem.name,
                                             config.output_bpm, tick_mode)] }
                       /\ midi_files' = Append(midi_files, path)
    /\ UNCHANGED <<config, segVars, emitVars, stems>>

\* line 335: return midi_files
ReturnFiles ==
    /\ pc = "convert_loop"
    /\ stem_idx > Len(stems)
    /\ pc' = "convert_returned"
    /\ UNCHANGED <<config, raised, segVars, emitVars, convVars>>

\* SpecConvert: one call of convert
InitConvert ==
    /\ config \in ConvertConfigs
    /\ pc = "convert_start"
    /\ raised = "none"
    /\ SegIdle
    /\ notes0 = <<>>
    /\ notes = <<>>
    /\ instrument = "other"
    /\ tempo = 120
    /\ tick_mode \in TickModes
    /\ track = <<>>
    /\ current_tick = 0
    /\ k = 0
    /\ call = 0
    /\ first_track = <<>>
    /\ step_log = <<>>
    /\ ConvIdle

NextConvert == BeginConvert \/ ConvertStem \/ ReturnFiles

SpecConvert == InitConvert /\ [][NextConvert]_vars

----------------------------------------------------------------------------
(* Properties of detect_notes, checked under Spec *)


\* the step just taken consumed a frame
FrameStep == pc = "frames" /\ i' = i + 1

\* a frame that yields a candidate record without raising
YieldsNote(fr) == IsCandidate(fr) /\ PitchError(fr) = "none"

\* C1: with min_note_duration <= max_note_duration, every note of the list,
\* closed mid-stream or by the flush, has
\* min_note_duration <= duration <= max_note_duration.
C1_DurationWithinBounds ==
    ConfigOrdered(config) =>
        \A n \in 1..Len(final_notes) :
            /\ config.min_note_duration <= final_notes[n].duration
            /\ final_notes[n].duration <= config.max_note_duration

\* a returned list holding a note cut at the ceiling and a shorter one
C1_Witness ==
    /\ pc = "returned"
    /\ ConfigOrdered(config)
    /\ \E n \in 1..Len(final_notes) :
           final_notes[n].duration = config.max_note_duration
    /\ \E n \in 1..Len(final_notes) :
           final_notes[n].duration < config.max_note_duration

\* C2: every candidate pitch, and so every pitch of an active entry and of
\* a note of the list, is an integer in 0..127.
C2_PitchInMidiRange ==
    /\ \A n \in 1..Len(final_notes) : final_notes[n].pitch \in 0..127
    /\ \A j \in 1..Len(active_notes) : active_notes[j].pitch \in 0..127

\* C5: after the flush, an active entry has a note of its pitch and
\* start_time in the list if and only if d = track end - start_time is at
\* least min_note_duration; there is one such note, its duration is d cut at
\* max_note_duration and its velocity the entry's.
C5_FlushEmission ==
    pc = "returned" =>
        \A j \in 1..Len(active_notes) :
            LET e == active_notes[j]
                d == audio_len - e.start_time
                at == { n \in 1..Len(final_notes) :
                          /\ final_notes[n].pitch = e.pitch
                          /\ final_notes[n].start_time = e.start_time }
            IN /\ (d >= config.min_note_duration) <=> (at # {})
               /\ Cardinality(at) <= 1
               /\ \A n \in at :
                    /\ final_notes[n].velocity = e.velocity
                    /\ final_notes[n].duration =
                         (IF d <= config.max_note_duration
                          THEN d ELSE config.max_note_duration)

\* one pitch only, over a track no longer than max_note_duration
SinglePitchShortTrack ==
    /\ pc = "returned"
    /\ Len(active_notes) = 1
    /\ audio_len <= config.max_note_duration

OneNoteOfThatPitch ==
    /\ Len(final_notes) = 1
    /\ final_notes[1].pitch = active_notes[1].pitch

\* C5 as stated: the flush rule, and a single constant-pitch run over a
\* track no longer than max_note_duration yields exactly one note.
C5_AsStated ==
    /\ C5_FlushEmission
    /\ SinglePitchShortTrack => OneNoteOfThatPitch

\* C5 amended: the flush rule, and a single constant-pitch run over a track
\* no longer than max_note_duration yields exactly one note of that pitch
\* when track end - start_time >= min_note_duration, and none otherwise.
C5_FlushRule ==
    /\ C5_FlushEmission
    /\ SinglePitchShortTrack =>
         IF audio_len - active_notes[1].start_time >= config.min_note_duration
         THEN OneNoteOfThatPitch
         ELSE final_notes = <<>>

\* a flush that keeps a run of exactly min_note_duration and drops a
\* shorter one
C5_Witness ==
    /\ pc = "returned"
    /\ \E j \in 1..Len(active_notes) :
         /\ audio_len - active_notes[j].start_time = config.min_note_duration
         /\ \E n \in 1..Len(final_notes) :
              /\ final_notes[n].pitch = active_notes[j].pitch
              /\ final_notes[n].duration = config.min_note_duration
    /\ \E j \in 1..Len(active_notes) :
         audio_len - active_notes[j].start_time < config.min_note_duration

\* a frame marked voiced whose confidence is outside [0,1] or whose
\* frequency is a number that is not positive
Malformed(fr) ==
    /\ fr.voiced
    /\ \/ fr.prob < 0
       \/ fr.prob > 100
       \/ (fr.f_kind = "num" /\ fr.f <= 0)

\* C7: once a frame marked voiced with a confidence outside [0,1] or a
\* non-positive frequency has been consumed, detect_notes has raised
\* InvalidFrame (and returns no list).
C7_InvalidFrameRaised ==
    (i >= 1 /\ Malformed(frame)) => (pc = "raised" /\ raised = "InvalidFrame")

\* the frame consumed by this step closes a note: a candidate whose pitch
\* has an entry started more than max_note_duration before it
ClosesNote(fr) ==
    /\ YieldsNote(fr)
    /\ \E j \in 1..Len(active_notes) :
         /\ active_notes[j].pitch = hz_to_midi_pitch(fr.f)
         /\ i * config.hop_length - active_notes[j].start_time
              > config.max_note_duration

C10_MidStreamClosure ==
    [][(FrameStep /\ ClosesNote(frame')) =>
        LET p == hz_to_midi_pitch(frame'.f)
            j == CHOOSE x \in 1..Len(active_notes) : active_notes[x].pitch = p
            old == active_notes[j]
        IN /\ final_notes' =
                (IF ConfigOrdered(config)
                 THEN Append(final_notes,
                             [pitch |-> p, start_time |-> old.start_time,
                              duration |-> config.max_note_duration,
                              velocity |-> old.velocity])
                 ELSE final_notes)
           /\ Len(active_notes') = Len(active_notes)
           /\ active_notes'[j] =
                [pitch |-> p, start_time |-> i * config.hop_length,
                 velocity |-> Velocity(frame'.prob)]
           /\ \A m \in 1..Len(active_notes) :
                m # j => active_notes'[m] = active_notes[m]
      ]_vars

\* a closure has just emitted a note and reopened the entry at the
\* candidate's time with the candidate's velocity
C10_Witness ==
    /\ pc = "frames"
    /\ ConfigOrdered(config)
    /\ Len(final_notes) = 1
    /\ \E j \in 1..Len(active_notes) :
         /\ active_notes[j].pitch = final_notes[1].pitch
         /\ active_notes[j].start_time = (i - 1) * config.hop_length
         /\ active_notes[j].start_time > final_notes[1].start_time
         /\ active_notes[j].velocity # final_notes[1].velocity

\* two notes of the list overlap in time
Overlap(a, b) ==
    /\ a.start_time < b.start_time + b.duration
    /\ b.start_time < a.start_time + a.duration

\* C11: of two notes of the same pitch in the list, the one emitted first
\* ends no later than the other starts: start_time + duration of the
\* earlier is at most the start_time of the later.
C11_SamePitchDisjoint ==
    \A a, b \in 1..Len(final_notes) :
        (a < b /\ final_notes[a].pitch = final_notes[b].pitch) =>
            final_notes[a].start_time + final_notes[a].duration
                <= final_notes[b].start_time

\* a returned list with two notes of one pitch, the first closed mid-stream
\* and the second by the flush, and a note of another pitch that overlaps
\* one of them
C11_Witness ==
    /\ pc = "returned"
    /\ \E a, b \in 1..Len(final_notes) :
         /\ a < b
         /\ final_notes[a].pitch = final_notes[b].pitch
         /\ final_notes[b].start_time > final_notes[a].start_time
    /\ \E a, b \in 1..Len(final_notes) :
         /\ final_notes[a].pitch # final_notes[b].pitch
         /\ Overlap(final_notes[a], final_notes[b])

----------------------------------------------------------------------------
(* Properties of notes_to_midi, checked under SpecEmit *)

\* start_tick and duration_tick as notes_to_midi computes them
StartTick(note) ==
    time_to_ticks(note.start_time, ticks_per_beat, bpm2tempo(tempo), tick_mode)

DurationTick(note) ==
    time_to_ticks(note.duration, ticks_per_beat, bpm2tempo(tempo), tick_mode)

RECURSIVE SumDeltas(_)
\* a reader's clock: the sum of the delta times of a run of events
SumDeltas(events) ==
    IF events = <<>> THEN 0
    ELSE events[1].time + SumDeltas(Tail(events))

\* absolute tick of the event at position idx
AbsTick(events, idx) == SumDeltas(SubSeq(events, 1, idx))

\* positions of the sounding note-ons (a filler has velocity 0)
SoundingNoteOns(events) ==
    { idx \in 1..Len(events) :
        events[idx].type = "note_on" /\ events[idx].velocity > 0 }

NthNoteOn(events, n) ==
    CHOOSE idx \in SoundingNoteOns(events) :
        Cardinality({ j \in SoundingNoteOns(events) : j < idx }) = n - 1

\* round(t * ticks_per_second), ticks_per_second = ticks_per_beat * bpm / 60
RefTick(t) == RoundHalfEven(t * ((ticks_per_beat * tempo) \div 60), sample_rate)

Within1(a, b) == a - b \in {-1, 0, 1}

\* a call of notes_to_midi has returned, and track is what it returned
Returned == (pc = "emit_idle" /\ call >= 1) \/ pc = "emit_done"

\* read back, the track gives each note of the (sorted) list its note-on and
\* note-off at the ticks of its start and duration, within one tick
RoundTrip ==
    /\ Cardinality(SoundingNoteOns(track)) = Len(notes)
    /\ \A n \in 1..Len(notes) :
         LET idx == NthNoteOn(track, n)
         IN /\ track[idx].note = notes[n].pitch
            /\ track[idx].velocity = notes[n].velocity
            /\ Within1(AbsTick(track, idx), RefTick(notes[n].start_time))
            /\ idx + 1 <= Len(track)
            /\ track[idx + 1].type = "note_off"
            /\ track[idx + 1].note = notes[n].pitch
            /\ Within1(AbsTick(track, idx + 1) - AbsTick(track, idx),
                       RefTick(notes[n].duration))

\* among the first n notes in start order, none starts before the tick at
\* which the one before it ends, in the ticks notes_to_midi computes
TickDisjoint(list, n) ==
    \A m \in 1..(n - 1) :
        StartTick(list[m + 1]) >= StartTick(list[m]) + DurationTick(list[m])

\* the same in time: none starts before the one before it ends
TimeDisjoint(list, n) ==
    \A m \in 1..(n - 1) :
        list[m + 1].start_time >= list[m].start_time + list[m].duration

\* C3 as stated: the round trip holds for any note list.
C3_AsStated == Returned => RoundTrip

\* C3 amended: the round trip holds for every note list in which, in start
\* order, no note starts before the tick at which the previous one ends.
C3_RoundTripDisjoint ==
    (Returned /\ TickDisjoint(notes, Len(notes))) => RoundTrip

\* three disjoint notes read back, one after a rest, with a truncated tick
\* that differs from the rounded one
C3_Witness ==
    /\ Returned
    /\ Len(notes) = 3
    /\ TickDisjoint(notes, 3)
    /\ \E idx \in 1..Len(track) :
         track[idx].type = "note_on" /\ track[idx].velocity = 0
    /\ \E n \in 1..3 : DurationTick(notes[n]) # RefTick(notes[n].duration)

\* C4: the second call on the same list returns the event sequence the
\* first call returned.
C4_Idempotent == pc = "emit_done" => track = first_track

\* both calls done on a list the first call reordered and that holds two
\* different notes of one start_time
C4_Witness ==
    /\ pc = "emit_done"
    /\ notes # notes0
    /\ \E a, b \in 1..Len(notes) :
         /\ a < b
         /\ notes[a].start_time = notes[b].start_time
         /\ notes[a].pitch # notes[b].pitch

\* the step just taken emitted notes[k]
NoteStep == pc = "emit_loop" /\ k' = k + 1

\* what the emission step of C6 appends for notes[k] and where it leaves
\* the cursor, the cursor starting at 0
EmissionStep ==
    /\ (pc = "emit_idle" /\ pc' = "emit_loop") => current_tick' = 0
    /\ NoteStep =>
         LET note == notes[k]
             start_tick == StartTick(note)
             duration_tick == DurationTick(note)
             on == Event("note_on", note.pitch, note.velocity, 0, 0)
             off == Event("note_off", note.pitch, 0, 0, duration_tick)
             rest == Event("note_on", 0, 0, 0, start_tick - current_tick)
         IN /\ track' = (IF start_tick - current_tick > 0
                         THEN track \o <<rest, on, off>>
                         ELSE track \o <<on, off>>)
            /\ current_tick' = start_tick + duration_tick

\* the cursor is the reader's clock
CursorIsClock == current_tick = SumDeltas(track)

----------------------------------------------------------------------------
(* Properties of convert, checked under SpecConvert *)

\* indices of the stems whose detected note list is not empty, in order
NonEmptyStems ==
    LET NonEmpty(n) == stem_notes[n] # <<>>
    IN SelectSeq([n \in 1..Len(stem_notes) |-> n], NonEmpty)

\* the stem just processed had an empty note list
EmptyStemStep ==
    /\ pc = "convert_loop"
    /\ Len(stem_notes') = Len(stem_notes) + 1
    /\ stem_notes'[Len(stem_notes')] = <<>>

\* C8: when convert returns, every stem has been processed and the list
\* returned is, in stem order, the path {base_name}_{stem_name}.mid of each
\* stem whose note list is not empty, each such file written once and no
\* other; a stem with an empty list adds no file, raises nothing and
\* leaves the loop running.
C8_OnePathPerNonEmptyStem ==
    [][/\ pc' = "convert_returned" =>
            /\ Len(stem_notes') = Len(stems')
            /\ midi_files' =
                 [m \in 1..Len(NonEmptyStems') |->
                    <<base_name, stems'[NonEmptyStems'[m]].name, "mid">>]
            /\ { f.path : f \in saved' } =
                 { midi_files'[m] : m \in 1..Len(midi_files') }
            /\ Cardinality(saved') = Len(midi_files')
       /\ EmptyStemStep =>
            /\ midi_files' = midi_files
            /\ saved' = saved
            /\ raised' = "none"
            /\ pc' = "convert_loop"
            /\ stem_idx' = stem_idx + 1
      ]_vars

\* convert has returned after an empty stem was followed by one with notes
C8_Witness ==
    /\ pc = "convert_returned"
    /\ Len(midi_files) >= 1
    /\ Len(midi_files) < Len(stems)
    /\ \E a, b \in 1..Len(stem_notes) :
         a < b /\ stem_notes[a] = <<>> /\ stem_notes[b] # <<>>

====
